---- MODULE Spec2Model ----
(***************************************************************************)
(* Zippychord engine of kanata: src/src/kanata/output_logic/zipchord.rs    *)
(* and the trie wrapper src/parser/src/trie.rs.                            *)
(*                                                                         *)
(* The state is the process-wide ZCH mutex (its poison flag and whether a  *)
(* guard is out), the ZchState it protects (zch_chords, zch_cfg, zchd),    *)
(* and the calls the last press/release made on the KbdOut collaborator,    *)
(* with the Result each call gave (kb, kb_results).                         *)
(* `down` and `last` are history variables: the keys whose press event has *)
(* not been followed by a release event, and the operation that produced   *)
(* the current state together with the ZchDynamicState it started from.    *)
(* sorted_chord and trie_map: a ZchSortedChord and a Trie used on their own *)
(* (SpecChord, SpecTrie), sorted_hist and trie_hist what was inserted.     *)
(***************************************************************************)
EXTENDS Integers, Sequences, FiniteSets, TLC

VARIABLES zch_chords, zch_cfg, zchd, poisoned, guard, kb, kb_results, down, last,
          sorted_chord, sorted_hist, trie_map, trie_hist

\* the engine behind ZCH, with its history variables
engine_vars == <<zch_chords, zch_cfg, zchd, poisoned, guard, kb, kb_results, down, last>>

\* a ZchSortedChord and a Trie on their own, each with the history of the
\* calls made on it
lib_vars == <<sorted_chord, sorted_hist, trie_map, trie_hist>>

vars == <<engine_vars, lib_vars>>

(***************************************************************************)
(* Bounds of the model.                                                    *)
(***************************************************************************)
\* key codes are 1..NumKeys
NumKeys == 3
\* zch_cfg_ticks_wait_enable ranges over 0..MaxWait in Spec
MaxWait == 3
\* Spec stops ticking once zchd_ticks_since_state_change reaches MaxTicks
MaxTicks == 5
\* SpecStale stops ticking this many ticks after the staleness threshold
StaleSlack == 3
\* SpecChord inserts the codes 1..NumCodes
NumCodes == 5
\* SpecTrie inserts and queries keys of up to MaxKeyLen codes
MaxKeyLen == 2
\* SpecTrie makes up to MaxInserts calls of insert
MaxInserts == 3

(***************************************************************************)
(* Program constants.                                                      *)
(***************************************************************************)
TICKS_UNTIL_FORCE_STATE_RESET == 10000
\* zchd_ticks_since_state_change and zchd_ticks_until_enabled are u16
U16_MODULUS == 65536
\* ZchConfig::default()
DEFAULT_TICKS_WAIT_ENABLE == 50

OsCodes == 1..NumKeys

(***************************************************************************)
(* trie.rs: a Trie<T> is modelled by its set of entries [key, val]; keys   *)
(* are Vec<u16>, stored as the byte string cast_slice gives.               *)
(***************************************************************************)
\* bytemuck::cast_slice::<u16, u8> on a little-endian target
RECURSIVE cast_slice(_)
cast_slice(key) ==
    IF key = <<>> THEN <<>>
    ELSE <<Head(key) % 256, Head(key) \div 256>> \o cast_slice(Tail(key))

\* key_len without the doubling for the two bytes of a u16
key_len_elements(k) == Len(k)

key_len(k) == Len(k) * 2

IsBytePrefix(p, s) == Len(p) <= Len(s) /\ SubSeq(s, 1, Len(p)) = p

\* lexicographic order on byte strings, a proper prefix first: the order in
\* which PatriciaMap::iter_prefix yields the entries under a prefix
RECURSIVE BytesLess(_, _)
BytesLess(a, b) ==
    IF a = <<>> THEN b # <<>>
    ELSE IF b = <<>> THEN FALSE
    ELSE IF Head(a) # Head(b) THEN Head(a) < Head(b)
    ELSE BytesLess(Tail(a), Tail(b))

\* PatriciaMap::iter_prefix(prefix): the entries whose key starts with prefix
iter_prefix(trie, prefix) ==
    {e \in trie : IsBytePrefix(prefix, cast_slice(e.key))}

\* Iterator::next() on iter_prefix: <<>> for None, <<entry>> for Some(entry)
iter_first(entries) ==
    IF entries = {} THEN <<>>
    ELSE <<CHOOSE e \in entries :
             \A f \in entries \ {e} : BytesLess(cast_slice(e.key), cast_slice(f.key))>>

Trie_new == {}

Trie_is_empty(trie) == trie = {}

get_or_descendant_exists(trie, key) ==
    LET descendants == iter_prefix(trie, cast_slice(key))
        first == iter_first(descendants)
    IN  IF first = <<>> THEN [tag |-> "NotInTrie"]
        ELSE IF Len(cast_slice(first[1].key)) = key_len(key)
             THEN [tag |-> "HasValue", val |-> first[1].val]
             ELSE [tag |-> "InTrie"]

\* the number of leading bytes two byte strings share
RECURSIVE CommonPrefixLen(_, _)
CommonPrefixLen(a, b) ==
    IF a = <<>> \/ b = <<>> \/ Head(a) # Head(b) THEN 0
    ELSE 1 + CommonPrefixLen(Tail(a), Tail(b))

\* PatriciaMap::get_longest_common_prefix(bytes): the entry with the longest
\* key that is a prefix of bytes; <<>> for None, <<entry>> for Some(entry)
get_longest_common_prefix(trie, bytes) ==
    LET ancestors == {e \in trie : IsBytePrefix(cast_slice(e.key), bytes)}
    IN  IF ancestors = {} THEN <<>>
        ELSE <<CHOOSE e \in ancestors : \A f \in ancestors : Len(f.key) <= Len(e.key)>>

\* PatriciaMap::longest_common_prefix_len(bytes): the most leading bytes that
\* bytes shares with a key of the map, whether or not an entry ends there
longest_common_prefix_len(trie, bytes) ==
    IF trie = {} THEN 0
    ELSE LET lens == {CommonPrefixLen(bytes, cast_slice(e.key)) : e \in trie}
         IN  CHOOSE n \in lens : \A m \in lens : m <= n

\* ancestor_exists asking for any shared byte instead of a stored prefix
ancestor_exists_shared(trie, key) ==
    longest_common_prefix_len(trie, cast_slice(key)) > 0

ancestor_exists(trie, key) ==
    get_longest_common_prefix(trie, cast_slice(key)) # <<>>

descendant_exists(trie, key) ==
    longest_common_prefix_len(trie, cast_slice(key)) = key_len(key)

\* PatriciaMap::insert: the entry of an equal key is replaced
Trie_insert(trie, key, val) ==
    {e \in trie : cast_slice(e.key) # cast_slice(key)} \cup {[key |-> key, val |-> val]}

(***************************************************************************)
(* Chord tables the configuration may install.  An entry's value is a      *)
(* ZchChordOutput: zch_output and zch_followups, <<>> for None and         *)
(* <<table>> for Some(table).                                              *)
(***************************************************************************)
ChordOutput(out, fol) == [zch_output |-> out, zch_followups |-> fol]

\* 1 -> Monday, 2 -> Tuesday, as follow-ups of a chord
FollowupChords ==
    { [key |-> <<1>>, val |-> ChordOutput("Monday", <<>>)],
      [key |-> <<2>>, val |-> ChordOutput("Tuesday", <<>>)] }

\* dy -> day, without and with follow-ups (d = 1, y = 2)
ChordsDay == { [key |-> <<1, 2>>, val |-> ChordOutput("day", <<>>)] }
ChordsDayFollow == { [key |-> <<1, 2>>, val |-> ChordOutput("day", <<FollowupChords>>)] }
\* a chord that is a proper prefix of another one
ChordsPrefix ==
    { [key |-> <<1>>, val |-> ChordOutput("a", <<>>)],
      [key |-> <<1, 2>>, val |-> ChordOutput("day", <<>>)] }
\* single-key chords, one of them with follow-ups
ChordsSingle ==
    { [key |-> <<1>>, val |-> ChordOutput("day", <<FollowupChords>>)],
      [key |-> <<2>>, val |-> ChordOutput("b", <<>>)] }

ChordTables == {Trie_new, ChordsDay, ChordsDayFollow, ChordsPrefix, ChordsSingle}

ZchPossibleChords_is_empty(chords) == Trie_is_empty(chords)

(***************************************************************************)
(* ZchSortedChord / ZchSortedInputs                                        *)
(***************************************************************************)
\* OsCode -> u16 (osc.into())
OsCodeToU16(osc) == osc % U16_MODULUS

\* Vec::insert(pos, key), pos counted from 0
VecInsert(v, pos, key) == SubSeq(v, 1, pos) \o <<key>> \o SubSeq(v, pos + 1, Len(v))

\* zch_insert that inserts at the position found in the Ok arm too
zch_insert_again(zch_keys, key) ==
    VecInsert(zch_keys, Cardinality({i \in 1..Len(zch_keys) : zch_keys[i] < key}), key)

\* binary_search on the sorted zch_keys: Ok when present, else Err(pos) with
\* pos the number of smaller elements
zch_insert(zch_keys, key) ==
    IF \E i \in 1..Len(zch_keys) : zch_keys[i] = key
    THEN zch_keys
    ELSE VecInsert(zch_keys, Cardinality({i \in 1..Len(zch_keys) : zch_keys[i] < key}), key)

zchsi_insert(zch_inputs, osc) == zch_insert(zch_inputs, OsCodeToU16(osc))

(***************************************************************************)
(* ZchDynamicState                                                         *)
(***************************************************************************)
ZchEnabledState == {"ZchEnabled", "ZchWaitEnable", "ZchDisabled"}

\* #[derive(Default)]
ZchDynamicState_default ==
    [ zchd_sorted_inputs |-> <<>>,
      zchd_enabled_state |-> "ZchEnabled",
      zchd_prioritized_chords |-> <<>>,
      zchd_ticks_since_state_change |-> 0,
      zchd_ticks_until_enabled |-> 0,
      zchd_pressed_keys |-> {} ]

zchd_is_disabled(d) == d.zchd_enabled_state = "ZchDisabled"

\* zchd_reset that forgets the enabled state
zchd_reset_keeps_state(d) ==
    [d EXCEPT !.zchd_pressed_keys = {},
              !.zchd_sorted_inputs = <<>>,
              !.zchd_prioritized_chords = <<>>]

zchd_reset(d) ==
    [d EXCEPT !.zchd_enabled_state = "ZchEnabled",
              !.zchd_pressed_keys = {},
              !.zchd_sorted_inputs = <<>>,
              !.zchd_prioritized_chords = <<>>]

saturating_sub(x, y) == IF x >= y THEN x - y ELSE 0

\* the countdown tested for zero before it is decremented
zchd_tick_countdown_late(d) ==
    IF d.zchd_enabled_state = "ZchWaitEnable"
    THEN [d EXCEPT !.zchd_ticks_until_enabled = saturating_sub(@, 1),
                   !.zchd_enabled_state =
                       IF d.zchd_ticks_until_enabled = 0 THEN "ZchEnabled" ELSE @]
    ELSE d

\* the three statements of zchd_tick after the increment
zchd_tick_countdown(d) ==
    IF d.zchd_enabled_state = "ZchWaitEnable"
    THEN LET until == saturating_sub(d.zchd_ticks_until_enabled, 1)
         IN  [d EXCEPT !.zchd_ticks_until_enabled = until,
                       !.zchd_enabled_state =
                           IF until = 0 THEN "ZchEnabled" ELSE @]
    ELSE d

zchd_tick_stale(d) ==
    IF d.zchd_ticks_since_state_change > TICKS_UNTIL_FORCE_STATE_RESET
    THEN zchd_reset(d)
    ELSE d

\* zchd_tick reduced to its increment
zchd_tick_counts_only(d, overflow_checks) ==
    [d |-> [d EXCEPT !.zchd_ticks_since_state_change = (@ + 1) % U16_MODULUS],
     panicked |-> FALSE]

\* `+= 1` on a u16: with overflow checks the addition panics at 65535 and the
\* state is left as it was; without them it wraps.  Result: [d, panicked].
zchd_tick(d, overflow_checks) ==
    IF d.zchd_ticks_since_state_change + 1 >= U16_MODULUS /\ overflow_checks
    THEN [d |-> d, panicked |-> TRUE]
    ELSE [d |-> zchd_tick_stale(zchd_tick_countdown(
                  [d EXCEPT !.zchd_ticks_since_state_change = (@ + 1) % U16_MODULUS])),
          panicked |-> FALSE]

\* zchd_state_change that leaves the tick counter running
zchd_state_change_keeps_ticks(d, cfg) ==
    [d EXCEPT !.zchd_ticks_until_enabled = cfg]

zchd_state_change(d, cfg) ==
    [d EXCEPT !.zchd_ticks_since_state_change = 0,
              !.zchd_ticks_until_enabled = cfg]

zchd_is_idle(d) ==
    d.zchd_enabled_state = "ZchEnabled" /\ d.zchd_pressed_keys = {}

\* zchd_press_key without the insert into zchd_pressed_keys
zchd_press_key_inputs_only(d, osc) ==
    [d EXCEPT !.zchd_sorted_inputs = zchsi_insert(@, osc)]

zchd_press_key(d, osc) ==
    [d EXCEPT !.zchd_pressed_keys = @ \cup {osc},
              !.zchd_sorted_inputs = zchsi_insert(@, osc)]

\* zchd_release_key with the two arms of the match swapped
zchd_release_key_swapped(d, osc) ==
    LET pressed == d.zchd_pressed_keys \ {osc}
    IN  [d EXCEPT !.zchd_pressed_keys = pressed,
                  !.zchd_enabled_state =
                      IF pressed = {} THEN "ZchDisabled" ELSE "ZchWaitEnable"]

zchd_release_key(d, osc) ==
    LET pressed == d.zchd_pressed_keys \ {osc}
    IN  [d EXCEPT !.zchd_pressed_keys = pressed,
                  !.zchd_enabled_state =
                      IF pressed = {} THEN "ZchWaitEnable" ELSE "ZchDisabled"]

(***************************************************************************)
(* ZchState: the handlers.  Each gives the ZchDynamicState it leaves, the  *)
(* KbdOut calls it made with their Results, and what it returned; io is    *)
(* the Result of the KbdOut call ("Ok" or "Err").                          *)
(***************************************************************************)
KbCall(kind, arg) == [kind |-> kind, arg |-> arg]

\* the first branch: pass the key through
zch_press_passthrough(d, osc, io) ==
    [d |-> d, calls |-> <<KbCall("press", osc)>>, results |-> <<io>>, ret |-> io]

\* the rest of the body: the state change and the key are recorded, then the
\* condition of the `if` is todo!(), which panics before any KbdOut call
zch_press_enabled(d, cfg, osc) ==
    [d |-> zchd_press_key(zchd_state_change(d, cfg), osc),
     calls |-> <<>>,
     results |-> <<>>,
     ret |-> "panic"]

\* zch_press_key with zchd_state_change moved above the early return
zch_press_key_late_check(d, chords, cfg, osc, io) ==
    IF ZchPossibleChords_is_empty(chords) \/ zchd_is_disabled(d)
    THEN zch_press_passthrough(zchd_state_change(d, cfg), osc, io)
    ELSE zch_press_enabled(d, cfg, osc)

zch_press_key(d, chords, cfg, osc, io) ==
    IF ZchPossibleChords_is_empty(chords) \/ zchd_is_disabled(d)
    THEN zch_press_passthrough(d, osc, io)
    ELSE zch_press_enabled(d, cfg, osc)

\* zch_release_key that drops the Result of kb.release_key and returns Ok(())
zch_release_key_swallows(d, chords, cfg, osc, io) ==
    IF ZchPossibleChords_is_empty(chords)
    THEN [d |-> d, calls |-> <<KbCall("release", osc)>>, results |-> <<io>>, ret |-> io]
    ELSE [d |-> zchd_release_key(zchd_state_change(d, cfg), osc),
          calls |-> <<KbCall("release", osc)>>,
          results |-> <<io>>,
          ret |-> "Ok"]

\* zch_release_key without the early return for an empty chord table
zch_release_key_no_empty_check(d, chords, cfg, osc, io) ==
    [d |-> zchd_release_key(zchd_state_change(d, cfg), osc),
     calls |-> <<KbCall("release", osc)>>,
     results |-> <<io>>,
     ret |-> io]

zch_release_key(d, chords, cfg, osc, io) ==
    IF ZchPossibleChords_is_empty(chords)
    THEN [d |-> d, calls |-> <<KbCall("release", osc)>>, results |-> <<io>>, ret |-> io]
    ELSE [d |-> zchd_release_key(zchd_state_change(d, cfg), osc),
          calls |-> <<KbCall("release", osc)>>,
          results |-> <<io>>,
          ret |-> io]

zch_tick(d, overflow_checks) == zchd_tick(d, overflow_checks)

zch_is_idle(d) == zchd_is_idle(d)

\* zch() handing out the poisoned state as it is
zch_lock_no_reset(d, is_poisoned) == d

\* zch(): the ZchDynamicState behind the guard it returns
zch_lock(d, is_poisoned) == IF is_poisoned THEN zchd_reset(d) ELSE d

(***************************************************************************)
(* The state machine.                                                      *)
(***************************************************************************)
\* the key of an operation that has none: a code outside OsCodes
NoKey == NumKeys + 1

\* op, key, ret: the operation that led here, its key and what it returned;
\* pre: the ZchDynamicState it started from; was_down: whether its key was
\* down before it; ev: the latest press/release event so far
Last(op, key, ret, pre, was_down, ev) ==
    [op |-> op, key |-> key, ret |-> ret, pre |-> pre, was_down |-> was_down, ev |-> ev]

\* ZchSortedChord::default() and Trie::new(), nothing inserted yet
LibInit ==
    /\ sorted_chord = <<>>
    /\ sorted_hist = [codes |-> {}, key |-> NoKey, pre |-> <<>>]
    /\ trie_map = Trie_new
    /\ trie_hist = [inserted |-> {}, count |-> 0]

\* Lazy::new(|| Mutex::new(Default::default())), with the configuration's
\* chords and wait ticks in place
InitWith(chords, waits) ==
    /\ zch_chords \in chords
    /\ zch_cfg \in waits
    /\ zchd = ZchDynamicState_default
    /\ poisoned = FALSE
    /\ guard = "free"
    /\ kb = <<>>
    /\ kb_results = <<>>
    /\ down = {}
    /\ last = Last("init", NoKey, "Ok", ZchDynamicState_default, FALSE, "none")
    /\ LibInit

Init == InitWith(ChordTables, 0..MaxWait)

\* zch(): take the lock; a poisoned lock is recovered with zchd_reset and
\* stays poisoned
Zch ==
    /\ guard = "free"
    /\ guard' = "held"
    /\ zchd' = zch_lock(zchd, poisoned)
    /\ last' = Last("zch", NoKey, IF poisoned THEN "recovered" ELSE "Ok", zchd, FALSE, last.ev)
    /\ UNCHANGED <<zch_chords, zch_cfg, poisoned, kb, kb_results, down>>
    /\ UNCHANGED lib_vars

\* zch().zch_press_key(kb, osc): a panic unwinds through the guard and
\* poisons the mutex
PressKey(osc) ==
    /\ guard = "held"
    /\ \E io \in {"Ok", "Err"} :
         LET r == zch_press_key(zchd, zch_chords, zch_cfg, osc, io)
         IN  /\ zchd' = r.d
             /\ kb' = r.calls
             /\ kb_results' = r.results
             /\ poisoned' = (poisoned \/ r.ret = "panic")
             /\ last' = Last("press", osc, r.ret, zchd, osc \in down, "press")
    /\ guard' = "free"
    /\ down' = down \cup {osc}
    /\ UNCHANGED <<zch_chords, zch_cfg>>
    /\ UNCHANGED lib_vars

\* zch().zch_release_key(kb, osc)
ReleaseKey(osc) ==
    /\ guard = "held"
    /\ \E io \in {"Ok", "Err"} :
         LET r == zch_release_key(zchd, zch_chords, zch_cfg, osc, io)
         IN  /\ zchd' = r.d
             /\ kb' = r.calls
             /\ kb_results' = r.results
             /\ last' = Last("release", osc, r.ret, zchd, osc \in down, "release")
    /\ guard' = "free"
    /\ down' = down \ {osc}
    /\ UNCHANGED <<zch_chords, zch_cfg, poisoned>>
    /\ UNCHANGED lib_vars

\* zch().zch_tick(), while fewer than cap ticks were counted
Tick(cap) ==
    /\ guard = "held"
    /\ zchd.zchd_ticks_since_state_change < cap
    /\ \E overflow_checks \in BOOLEAN :
         LET r == zch_tick(zchd, overflow_checks)
         IN  /\ zchd' = r.d
             /\ poisoned' = (poisoned \/ r.panicked)
             /\ last' = Last("tick", NoKey, IF r.panicked THEN "panic" ELSE "Ok", zchd,
                           FALSE, last.ev)
    /\ guard' = "free"
    /\ UNCHANGED <<zch_chords, zch_cfg, kb, kb_results, down>>
    /\ UNCHANGED lib_vars

\* zch().zch_is_idle()
IsIdle ==
    /\ guard = "held"
    /\ last' = Last("is_idle", NoKey, IF zch_is_idle(zchd) THEN "true" ELSE "false", zchd,
                    FALSE, last.ev)
    /\ guard' = "free"
    /\ UNCHANGED <<zch_chords, zch_cfg, zchd, poisoned, kb, kb_results, down>>
    /\ UNCHANGED lib_vars

\* the holder of the guard panics in code of its own
HolderPanic ==
    /\ guard = "held"
    /\ poisoned' = TRUE
    /\ guard' = "free"
    /\ last' = Last("holder_panic", NoKey, "panic", zchd, FALSE, last.ev)
    /\ UNCHANGED <<zch_chords, zch_cfg, zchd, kb, kb_results, down>>
    /\ UNCHANGED lib_vars

Next ==
    \/ Zch
    \/ \E osc \in OsCodes : PressKey(osc)
    \/ \E osc \in OsCodes : ReleaseKey(osc)
    \/ Tick(MaxTicks)
    \/ IsIdle
    \/ HolderPanic

Spec == Init /\ [][Next]_vars

(***************************************************************************)
(* Staleness: one key, the default wait and one beyond the threshold, and  *)
(* ticks up to StaleSlack past TICKS_UNTIL_FORCE_STATE_RESET.              *)
(***************************************************************************)
StaleWait == TICKS_UNTIL_FORCE_STATE_RESET + 2

StaleTickCap == TICKS_UNTIL_FORCE_STATE_RESET + StaleSlack

InitStale == InitWith({ChordsDay}, {DEFAULT_TICKS_WAIT_ENABLE, StaleWait})

NextStale ==
    \/ Zch
    \/ PressKey(1)
    \/ ReleaseKey(1)
    \/ Tick(StaleTickCap)

SpecStale == InitStale /\ [][NextStale]_vars

(***************************************************************************)
(* Abbreviations used by the properties.                                   *)
(***************************************************************************)
HasChords == ~ZchPossibleChords_is_empty(zch_chords)

IsResetState(d) ==
    /\ d.zchd_enabled_state = "ZchEnabled"
    /\ d.zchd_pressed_keys = {}
    /\ d.zchd_sorted_inputs = <<>>
    /\ d.zchd_prioritized_chords = <<>>

Max(a, b) == IF a >= b THEN a ELSE b

AfterFullRelease == HasChords /\ last.ev = "release" /\ guard = "free"

C3_StaleTickResets ==
    (last.op = "tick" /\ last.ret = "Ok"
       /\ zchd.zchd_ticks_since_state_change > TICKS_UNTIL_FORCE_STATE_RESET)
    => IsResetState(zchd)

\* the tick that passed the threshold found WaitEnable with ticks to go
C3_Witness ==
    /\ last.op = "tick"
    /\ zchd.zchd_ticks_since_state_change = TICKS_UNTIL_FORCE_STATE_RESET + 1
    /\ last.pre.zchd_enabled_state = "ZchWaitEnable"
    /\ zchd.zchd_ticks_until_enabled > 0
    /\ zchd.zchd_enabled_state = "ZchEnabled"

(***************************************************************************)
(* C4                                                                      *)
(***************************************************************************)
\* C4: the lock can always be taken when it is free, and whoever holds the
\* guard of a poisoned lock has, before its operation runs, a reset
\* ZchDynamicState.
C4_PoisonRecovered ==
    /\ guard = "free" => ENABLED Zch
    /\ (guard = "held" /\ poisoned) => IsResetState(zchd)

\* zch() recovered a state in which a key was recorded as pressed
C4_Witness ==
    /\ last.op = "zch"
    /\ last.ret = "recovered"
    /\ guard = "held"
    /\ last.pre.zchd_pressed_keys # {}
    /\ IsResetState(zchd)

(***************************************************************************)
(* What a press in Enabled or WaitEnable is matched against (C5 to C7).    *)
(***************************************************************************)
\* the press that led here ran the chord matching
MatchingPress ==
    last.op = "press" /\ HasChords /\ ~zchd_is_disabled(last.pre)

\* the accumulated chord key once the pressed key is inserted
PressAccumulated == zchsi_insert(last.pre.zchd_sorted_inputs, last.key)

\* the table consulted: the prioritized chords if any, else zch_chords
PressTable ==
    IF last.pre.zchd_prioritized_chords # <<>>
    THEN last.pre.zchd_prioritized_chords[1]
    ELSE zch_chords

PressLookup == get_or_descendant_exists(PressTable, PressAccumulated)

\* a chord of the consulted table strictly extends the accumulated key
PressLongerPossible ==
    \E e \in iter_prefix(PressTable, cast_slice(PressAccumulated)) :
        Len(e.key) > Len(PressAccumulated)

ExactMatchOnly ==
    MatchingPress /\ PressLookup.tag = "HasValue" /\ ~PressLongerPossible

ExactMatchDeferred ==
    MatchingPress /\ PressLookup.tag = "HasValue" /\ PressLongerPossible

\* n deletions followed by the output text
Activation(n, out) ==
    [i \in 1..n |-> KbCall("delete", NoKey)] \o <<KbCall("text", out)>>

(***************************************************************************)
(* C5                                                                      *)
(***************************************************************************)
\* C5: a press that completes a chord which no chord of the consulted table
\* extends emits one deletion per accumulated key and then the chord's
\* output, and leaves the accumulator and the pressed set empty.
C5_ImmediateActivation ==
    ExactMatchOnly =>
        /\ kb = Activation(Len(PressAccumulated), PressLookup.val.zch_output)
        /\ zchd.zchd_sorted_inputs = <<>>
        /\ zchd.zchd_pressed_keys = {}

(***************************************************************************)
(* C6                                                                      *)
(***************************************************************************)
\* C6: after the press that activates a chord, the prioritized chords are
\* that chord's follow-ups, and absent when it has none.
C6_FollowupsInstalled ==
    ExactMatchOnly =>
        zchd.zchd_prioritized_chords = PressLookup.val.zch_followups

(***************************************************************************)
(* C7                                                                      *)
(***************************************************************************)
\* ticks keep coming: the lock is taken whenever it is free and the event
\* loop's tick runs again and again
InitFair == InitWith({ChordsPrefix}, {1})

NextFair ==
    \/ Zch
    \/ PressKey(1)
    \/ Tick(U16_MODULUS)

FairSpec == InitFair /\ [][NextFair]_vars /\ WF_vars(Zch) /\ SF_vars(Tick(U16_MODULUS))

\* a call on KbdOut typed an output text
OutputTyped == \E i \in 1..Len(kb) : kb[i].kind = "text"

\* the deferring press of a key that was not already down (no key repeat)
FreshDeferred == ExactMatchDeferred /\ ~last.was_down

\* C7: a press with an exact match that a longer chord may still extend emits
\* nothing, and unless another press or a release arrives the match is
\* eventually typed.
C7_DeferredCommits ==
    /\ [](ExactMatchDeferred => kb = <<>>)
    /\ FreshDeferred
         ~> (OutputTyped \/ last.op = "release"
               \/ (last.op = "press" /\ ~FreshDeferred))

(***************************************************************************)
(* C8                                                                      *)
(***************************************************************************)
\* C8: with an empty chord table a press or release makes exactly the one
\* KbdOut call of its kind for its key and returns its result, and
\* zch_is_idle is true whenever no key is down.
C8_EmptyTablePassThrough ==
    ~HasChords =>
        /\ last.op \in {"press", "release"} =>
              kb = <<KbCall(last.op, last.key)>> /\ last.ret \in {"Ok", "Err"}
        /\ down = {} => zch_is_idle(zchd)

\* the last key went up through an empty table, after some ticks
C8_Witness ==
    /\ ~HasChords
    /\ last.op = "release"
    /\ last.was_down
    /\ down = {}
    /\ kb = <<KbCall("release", last.key)>>
    /\ zchd.zchd_ticks_since_state_change > 0
    /\ zch_is_idle(zchd)

(***************************************************************************)
(* C9                                                                      *)
(***************************************************************************)
\* C9: a press with an empty chord table or in Disabled calls KbdOut's press
\* once with that key and leaves the whole ZchDynamicState as it was.
C9_PassThroughPress ==
    (last.op = "press" /\ (~HasChords \/ zchd_is_disabled(last.pre))) =>
        /\ kb = <<KbCall("press", last.key)>>
        /\ zchd = last.pre

\* a passed-through press after some ticks were counted
C9_Witness ==
    /\ last.op = "press"
    /\ ~HasChords
    /\ kb = <<KbCall("press", last.key)>>
    /\ zchd = last.pre
    /\ zchd.zchd_ticks_since_state_change > 0

ChordCodes == 1..NumCodes

\* ZchSortedChord::zch_insert(key) on sorted_chord
ChordInsert(key) ==
    /\ sorted_chord' = zch_insert(sorted_chord, key)
    /\ sorted_hist' = [codes |-> sorted_hist.codes \cup {key},
                       key |-> key,
                       pre |-> sorted_chord]
    /\ UNCHANGED <<engine_vars, trie_map, trie_hist>>

InitChord == InitWith({Trie_new}, {DEFAULT_TICKS_WAIT_ENABLE})

NextChord == \E key \in ChordCodes : ChordInsert(key)

SpecChord == InitChord /\ [][NextChord]_vars

Elements(seq) == {seq[i] : i \in 1..Len(seq)}

\* the one strictly ascending sequence of the members of a finite set of numbers
RECURSIVE Ascending(_)
Ascending(set) ==
    IF set = {} THEN <<>>
    ELSE LET least == CHOOSE x \in set : \A y \in set : x <= y
         IN  <<least>> \o Ascending(set \ {least})

(***************************************************************************)
(* C12                                                                     *)
(***************************************************************************)
\* C12: after any insertions zch_keys is strictly ascending, without
\* duplicates, and holds exactly the codes inserted, whatever their order;
\* inserting a code that is present changes neither contents nor length.
C12_SortedSetOfInserted ==
    /\ \A i \in 1..Len(sorted_chord) - 1 : sorted_chord[i] < sorted_chord[i + 1]
    /\ Elements(sorted_chord) = sorted_hist.codes
    /\ sorted_chord = Ascending(sorted_hist.codes)
    /\ sorted_hist.key \in Elements(sorted_hist.pre) =>
          sorted_chord = sorted_hist.pre /\ Len(sorted_chord) = Len(sorted_hist.pre)

\* a code in the middle of a chord of three or more was inserted again
C12_Witness ==
    /\ Len(sorted_chord) >= 3
    /\ sorted_hist.key \in Elements(sorted_hist.pre)
    /\ sorted_hist.key # sorted_chord[1]
    /\ sorted_hist.key # sorted_chord[Len(sorted_chord)]

(***************************************************************************)
(* A Trie on its own: up to MaxInserts inserts of keys of up to MaxKeyLen  *)
(* codes.  1 and 257 share their low byte and differ in the high one.      *)
(***************************************************************************)
TrieCodes == {1, 257}

TrieValues == {"x", "y"}

RECURSIVE TrieKeysOfLen(_)
TrieKeysOfLen(n) ==
    IF n = 0 THEN {<<>>}
    ELSE {Append(k, c) : k \in TrieKeysOfLen(n - 1), c \in TrieCodes}

TrieKeys == UNION {TrieKeysOfLen(n) : n \in 0..MaxKeyLen}

\* Trie::insert(key, val) on trie_map; the history keeps the value last
\* inserted for each key
TrieInsert(key, val) ==
    /\ trie_hist.count < MaxInserts
    /\ trie_map' = Trie_insert(trie_map, key, val)
    /\ trie_hist' =
         [inserted |-> {h \in trie_hist.inserted : h.key # key}
                         \cup {[key |-> key, val |-> val]},
          count |-> trie_hist.count + 1]
    /\ UNCHANGED <<engine_vars, sorted_chord, sorted_hist>>

InitTrie == InitWith({Trie_new}, {DEFAULT_TICKS_WAIT_ENABLE})

NextTrie == \E key \in TrieKeys, val \in TrieValues : TrieInsert(key, val)

SpecTrie == InitTrie /\ [][NextTrie]_vars

\* p is a prefix of s, as sequences of codes
IsKeyPrefix(p, s) == Len(p) <= Len(s) /\ \A i \in 1..Len(p) : p[i] = s[i]

InsertedKeys == {h.key : h \in trie_hist.inserted}

(***************************************************************************)
(* C13                                                                     *)
(***************************************************************************)
\* C13: get_or_descendant_exists(k) is NotInTrie iff no inserted key has k as
\* a prefix, HasValue(v) with v the value inserted for k iff k is an inserted
\* key, and InTrie iff k is not inserted but a proper prefix of an inserted key.
C13_LookupTriState ==
    \A k \in TrieKeys :
        LET r == get_or_descendant_exists(trie_map, k)
        IN  /\ r.tag = "NotInTrie" <=> ~\E s \in InsertedKeys : IsKeyPrefix(k, s)
            /\ r.tag = "HasValue" <=> k \in InsertedKeys
            /\ r.tag = "HasValue" => [key |-> k, val |-> r.val] \in trie_hist.inserted
            /\ r.tag = "InTrie" <=>
                  (k \notin InsertedKeys /\ \E s \in InsertedKeys : IsKeyPrefix(k, s))

\* all three answers occur, one of them for a key whose value was replaced
C13_Witness ==
    /\ trie_hist.count > Cardinality(trie_map)
    /\ \E k \in TrieKeys : get_or_descendant_exists(trie_map, k).tag = "NotInTrie"
    /\ \E k \in TrieKeys : get_or_descendant_exists(trie_map, k).tag = "InTrie"
    /\ \E k \in TrieKeys : get_or_descendant_exists(trie_map, k).tag = "HasValue"

(***************************************************************************)
(* C14                                                                     *)
(***************************************************************************)
\* C14: descendant_exists(k) is true iff some inserted key has k as a prefix,
\* the empty key and the empty Trie included.
C14_DescendantIffPrefix ==
    \A k \in TrieKeys :
        descendant_exists(trie_map, k) <=> \E s \in InsertedKeys : IsKeyPrefix(k, s)

(***************************************************************************)
(* C15                                                                     *)
(***************************************************************************)
\* C15: ancestor_exists(k) is true iff some inserted key is a prefix of k or
\* equal to k.
C15_AncestorIffPrefix ==
    \A k \in TrieKeys :
        ancestor_exists(trie_map, k) <=> \E s \in InsertedKeys : IsKeyPrefix(s, k)

\* a key with a proper ancestor, and a key that shares only its first byte
\* with the inserted ones and has none
C15_Witness ==
    /\ \E k \in TrieKeys :
          /\ k \notin InsertedKeys
          /\ ancestor_exists(trie_map, k)
    /\ \E k \in TrieKeys :
          /\ ~ancestor_exists(trie_map, k)
          /\ longest_common_prefix_len(trie_map, cast_slice(k)) = 1

(***************************************************************************)
(* C17                                                                     *)
(***************************************************************************)
\* C17: a release in Enabled or WaitEnable with a non-empty chord table
\* zeroes zchd_ticks_since_state_change, removes the key from the pressed
\* set and calls KbdOut's release once for it; it leaves WaitEnable with the
\* countdown at zch_cfg when the set is empty, and Disabled otherwise.
C17_ReleaseEffect ==
    (last.op = "release" /\ HasChords /\ ~zchd_is_disabled(last.pre)) =>
        /\ zchd.zchd_ticks_since_state_change = 0
        /\ zchd.zchd_pressed_keys = last.pre.zchd_pressed_keys \ {last.key}
        /\ kb = <<KbCall("release", last.key)>>
        /\ IF zchd.zchd_pressed_keys = {}
           THEN /\ zchd.zchd_enabled_state = "ZchWaitEnable"
                /\ zchd.zchd_ticks_until_enabled = zch_cfg
           ELSE zchd.zchd_enabled_state = "ZchDisabled"

\* a release in WaitEnable, part of the way through an earlier countdown
C17_Witness ==
    /\ last.op = "release"
    /\ HasChords
    /\ last.pre.zchd_enabled_state = "ZchWaitEnable"
    /\ last.pre.zchd_ticks_since_state_change > 0
    /\ last.pre.zchd_ticks_until_enabled < zch_cfg
    /\ zchd.zchd_ticks_since_state_change = 0
    /\ zchd.zchd_ticks_until_enabled = zch_cfg
    /\ zchd.zchd_enabled_state = "ZchWaitEnable"

(***************************************************************************)
(* C18                                                                     *)
(***************************************************************************)
\* neither the prioritized chords (if any) nor zch_chords can be completed
\* from the accumulated key
NoChordPossible ==
    /\ MatchingPress
    /\ get_or_descendant_exists(zch_chords, PressAccumulated).tag = "NotInTrie"
    /\ last.pre.zchd_prioritized_chords # <<>> =>
          get_or_descendant_exists(last.pre.zchd_prioritized_chords[1],
                                   PressAccumulated).tag = "NotInTrie"

\* C18: a press in Enabled or WaitEnable after which no chord is possible
\* leaves Disabled and is passed through as one KbdOut press of its key.
C18_NoChordDisables ==
    NoChordPossible =>
        /\ zchd.zchd_enabled_state = "ZchDisabled"
        /\ kb = <<KbCall("press", last.key)>>

(***************************************************************************)
(* C19                                                                     *)
(***************************************************************************)
\* C19: after a tick zchd_ticks_since_state_change is at most
\* TICKS_UNTIL_FORCE_STATE_RESET + 1.
C19_CounterBounded ==
    last.op = "tick" =>
        zchd.zchd_ticks_since_state_change <= TICKS_UNTIL_FORCE_STATE_RESET + 1

(***************************************************************************)
(* C20                                                                     *)
(***************************************************************************)
\* the lock is taken whenever it is free and the tick runs again and again,
\* up to StaleSlack ticks past the staleness threshold
FairStale ==
    InitStale /\ [][NextStale]_vars /\ WF_vars(Zch) /\ SF_vars(Tick(StaleTickCap))

\* C20: if from some point on there is no press and no release, then from
\* some point on the engine is idle for good.
C20_EventuallyIdle ==
    <>[](last.op # "press" /\ last.op # "release") => <>[]zch_is_idle(zchd)

\* the staleness tick ended a WaitEnable that its countdown had not ended
C20_Witness ==
    /\ last.op = "tick"
    /\ last.pre.zchd_enabled_state = "ZchWaitEnable"
    /\ last.pre.zchd_ticks_until_enabled > 1
    /\ zch_is_idle(zchd)

====
